---- MODULE Spec2Model ----
(***************************************************************************)
(* Client sessions of dragonboat (client/session.go).                      *)
(*                                                                         *)
(* A Session is a struct of four uint64 fields.  The model keeps the       *)
(* unsigned arithmetic of the fields but at a reduced width: every field   *)
(* is a Width-bit unsigned integer, so math.MaxUint64 is 2^Width - 1 and   *)
(* the increment of SeriesID wraps exactly as uint64 does.                 *)
(*                                                                         *)
(* A panic aborts the call that raised it and leaves the receiver as it    *)
(* was; the outcome of the last call is kept in ret.                       *)
(*                                                                         *)
(* The applying side (session mirror, state machine handle, two-phase      *)
(* snapshot) is declared in the C wrapper header only; it is modelled from *)
(* the specification and kept in rsm.                                      *)
(***************************************************************************)
EXTENDS Integers, Sequences, FiniteSets, TLC

VARIABLES
    cs,     \* the Session the calls are made on
    pc,     \* "idle" | "NewSession" | "NewNoOPSession" (inside the loop) | "ready"
    ctor,   \* how cs was built: "none" | "NewSession" | "NewNoOPSession" | "literal"
    draws,  \* values the random source returned to the running constructor
    op,     \* name of the last function or method called
    arg,    \* clusterID argument of the last call that takes one
    ret,    \* outcome of the last call: "ok" | "true" | "false" | "panic" | "none"
    life,   \* where the calls made so far stand in the session lifecycle
    rsm     \* the state machine handle on the applying side and its session mirror

vars == <<cs, pc, ctor, draws, op, arg, ret, life, rsm>>

\* the variables of the client session
sessionVars == <<cs, pc, ctor, draws, op, arg, ret, life>>

----------------------------------------------------------------------------
(* Bounds *)

\* bit width of the unsigned fields (uint64 in the source)
Width == 3
\* largest cluster id passed to a constructor or a check
MaxClusterID == 2
\* number of leading sentinel draws of the random source that are recorded
MaxDraws == 2
\* number of client sessions registered on the applying side
MaxClients == 1
\* largest SeriesID of a committed entry
MaxSeries == 2
\* number of distinct command payloads
MaxPayload == 1

----------------------------------------------------------------------------
(* Constants of client/session.go *)

Modulus == 2 ^ Width
MaxUint64 == Modulus - 1
Uint64 == 0 .. MaxUint64
ClusterIDs == 1 .. MaxClusterID

NotSessionManagedClientID == 0
NoOPSeriesID == 0
SeriesIDForRegister == MaxUint64 - 1
SeriesIDForUnregister == MaxUint64
SeriesIDFirstProposal == 1

\* the Session struct
Session == [ClusterID : Uint64, ClientID : Uint64,
            SeriesID : Uint64, RespondedTo : Uint64]

\* the struct literals the calls are tried on: a ClusterID is only ever
\* compared with the cluster id passed, 0 stands for the id of any other group
Literals == [ClusterID : 0 .. MaxClusterID, ClientID : Uint64,
             SeriesID : Uint64, RespondedTo : Uint64]

\* the zero value of the struct
ZeroSession == [ClusterID |-> 0, ClientID |-> 0, SeriesID |-> 0, RespondedTo |-> 0]

\* outcome of a call: the receiver afterwards and what the call returned
Outcome(s, r) == [cs |-> s, ret |-> r]

----------------------------------------------------------------------------
(* Functions and methods, as operators on a Session value *)

\* NewSession with the SeriesID of NewNoOPSession
NewSession_NoOPSeries(clusterID, cid) ==
    [ClusterID |-> clusterID, ClientID |-> cid,
     SeriesID |-> NoOPSeriesID, RespondedTo |-> 0]

\* the struct literal NewSession returns once cid passed the test
NewSession(clusterID, cid) ==
    [ClusterID |-> clusterID, ClientID |-> cid,
     SeriesID |-> (NoOPSeriesID + 1) % Modulus, RespondedTo |-> 0]

\* the struct literal NewNoOPSession returns once cid passed the test
NewNoOPSession(clusterID, cid) ==
    [ClusterID |-> clusterID, ClientID |-> cid,
     SeriesID |-> NoOPSeriesID, RespondedTo |-> 0]

IsNoOPSession(s) ==
    IF s.SeriesID = NoOPSeriesID THEN "true" ELSE "false"

ClusterIDMustMatch(s, clusterID) ==
    IF s.ClusterID # clusterID THEN "panic" ELSE "ok"

\* assertRegularSession without the test of the series id
assertRegularSession_ClientOnly(s) ==
    IF s.ClientID = NotSessionManagedClientID
    THEN "panic"
    ELSE "ok"

\* assertRegularSession with && in place of ||
assertRegularSession_And(s) ==
    IF s.ClientID = NotSessionManagedClientID /\ s.SeriesID = NoOPSeriesID
    THEN "panic"
    ELSE "ok"

assertRegularSession(s) ==
    IF s.ClientID = NotSessionManagedClientID \/ s.SeriesID = NoOPSeriesID
    THEN "panic"
    ELSE "ok"

PrepareForRegister(s) ==
    IF assertRegularSession(s) = "panic"
    THEN Outcome(s, "panic")
    ELSE Outcome([s EXCEPT !.SeriesID = SeriesIDForRegister], "ok")

PrepareForUnregister(s) ==
    IF assertRegularSession(s) = "panic"
    THEN Outcome(s, "panic")
    ELSE Outcome([s EXCEPT !.SeriesID = SeriesIDForUnregister], "ok")

\* PrepareForPropose that also starts RespondedTo over
PrepareForPropose_ResetsRespondedTo(s) ==
    IF s.ClientID = NotSessionManagedClientID \/ s.SeriesID = NoOPSeriesID
    THEN Outcome(s, "panic")
    ELSE Outcome([s EXCEPT !.SeriesID = SeriesIDFirstProposal,
                           !.RespondedTo = 0], "ok")

PrepareForPropose(s) ==
    IF assertRegularSession(s) = "panic"
    THEN Outcome(s, "panic")
    ELSE Outcome([s EXCEPT !.SeriesID = SeriesIDFirstProposal], "ok")

\* ProposalCompleted that writes RespondedTo before it tests the pair
ProposalCompleted_AssignFirst(s) ==
    IF s.ClientID = NotSessionManagedClientID \/ s.SeriesID = NoOPSeriesID
    THEN Outcome(s, "panic")
    ELSE IF s.SeriesID = (s.RespondedTo + 1) % Modulus
         THEN Outcome([s EXCEPT !.RespondedTo = s.SeriesID,
                                !.SeriesID = (s.SeriesID + 1) % Modulus], "ok")
         ELSE Outcome([s EXCEPT !.RespondedTo = s.SeriesID], "panic")

\* ProposalCompleted without the increment of SeriesID
ProposalCompleted_NoIncrement(s) ==
    IF s.ClientID = NotSessionManagedClientID \/ s.SeriesID = NoOPSeriesID
    THEN Outcome(s, "panic")
    ELSE IF s.SeriesID = (s.RespondedTo + 1) % Modulus
         THEN Outcome([s EXCEPT !.RespondedTo = s.SeriesID], "ok")
         ELSE Outcome(s, "panic")

ProposalCompleted(s) ==
    IF assertRegularSession(s) = "panic"
    THEN Outcome(s, "panic")
    ELSE IF s.SeriesID = (s.RespondedTo + 1) % Modulus
         THEN Outcome([s EXCEPT !.RespondedTo = s.SeriesID,
                                !.SeriesID = (s.SeriesID + 1) % Modulus], "ok")
         ELSE Outcome(s, "panic")

\* ValidForProposal without the test of the Register and Unregister series ids
ValidForProposal_NoSentinelCheck(s, clusterID) ==
    IF s.SeriesID = NoOPSeriesID /\ s.ClientID = NotSessionManagedClientID
    THEN "false"
    ELSE IF s.ClusterID # clusterID
    THEN "false"
    ELSE IF s.ClientID = NotSessionManagedClientID
    THEN "false"
    ELSE IF s.RespondedTo > s.SeriesID
    THEN "panic"
    ELSE "true"

\* ValidForProposal with || in place of && in its first test
ValidForProposal_NoOPOr(s, clusterID) ==
    IF s.SeriesID = NoOPSeriesID \/ s.ClientID = NotSessionManagedClientID
    THEN "false"
    ELSE IF s.ClusterID # clusterID
    THEN "false"
    ELSE IF s.SeriesID = SeriesIDForRegister \/ s.SeriesID = SeriesIDForUnregister
    THEN "false"
    ELSE IF s.RespondedTo > s.SeriesID
    THEN "panic"
    ELSE "true"

\* ValidForProposal without the comparison of the cluster ids
ValidForProposal_NoClusterCheck(s, clusterID) ==
    IF s.ClientID = NotSessionManagedClientID
    THEN "false"
    ELSE IF s.SeriesID = SeriesIDForRegister \/ s.SeriesID = SeriesIDForUnregister
    THEN "false"
    ELSE IF s.RespondedTo > s.SeriesID
    THEN "panic"
    ELSE "true"

\* ValidForProposal with the RespondedTo assertion made first
ValidForProposal_AssertFirst(s, clusterID) ==
    IF s.RespondedTo > s.SeriesID
    THEN "panic"
    ELSE IF s.ClusterID # clusterID
    THEN "false"
    ELSE IF s.ClientID = NotSessionManagedClientID
    THEN "false"
    ELSE IF s.SeriesID = SeriesIDForRegister \/ s.SeriesID = SeriesIDForUnregister
    THEN "false"
    ELSE "true"

ValidForProposal(s, clusterID) ==
    IF s.SeriesID = NoOPSeriesID /\ s.ClientID = NotSessionManagedClientID
    THEN "false"
    ELSE IF s.ClusterID # clusterID
    THEN "false"
    ELSE IF s.ClientID = NotSessionManagedClientID
    THEN "false"
    ELSE IF s.SeriesID = SeriesIDForRegister \/ s.SeriesID = SeriesIDForUnregister
    THEN "false"
    ELSE IF s.RespondedTo > s.SeriesID
    THEN "panic"
    ELSE "true"

\* ValidForSessionOp without the test of the client id and the NoOP series id
ValidForSessionOp_NoClientCheck(s, clusterID) ==
    IF s.ClusterID # clusterID
    THEN "false"
    ELSE IF s.SeriesID = SeriesIDForRegister \/ s.SeriesID = SeriesIDForUnregister
    THEN "true"
    ELSE "false"

ValidForSessionOp(s, clusterID) ==
    IF s.ClusterID # clusterID
    THEN "false"
    ELSE IF s.ClientID = NotSessionManagedClientID \/ s.SeriesID = NoOPSeriesID
    THEN "false"
    ELSE IF s.SeriesID = SeriesIDForRegister \/ s.SeriesID = SeriesIDForUnregister
    THEN "true"
    ELSE "false"

----------------------------------------------------------------------------
(* The session lifecycle: created, prepared for register, usable for         *)
(* proposals with n of them completed, prepared for unregister.  life        *)
(* follows the calls made on the session; a call out of that order moves it  *)
(* "off", a call of that order that panics moves it to "faulted".            *)

Life(phase, n) == [phase |-> phase, n |-> n]

LifeStep(l, name, r) ==
    IF l.phase = "created" /\ name = "PrepareForRegister"
    THEN Life(IF r = "ok" THEN "registered" ELSE "faulted", 0)
    ELSE IF l.phase = "registered" /\ name = "PrepareForPropose"
    THEN Life(IF r = "ok" THEN "proposing" ELSE "faulted", 0)
    ELSE IF l.phase = "proposing" /\ name = "ProposalCompleted"
    THEN IF r = "ok" THEN Life("proposing", l.n + 1) ELSE Life("faulted", l.n)
    ELSE IF l.phase = "proposing" /\ name = "PrepareForUnregister"
    THEN Life(IF r = "ok" THEN "unregistered" ELSE "faulted", l.n)
    ELSE IF l.phase = "faulted"
    THEN l
    ELSE Life("off", 0)

----------------------------------------------------------------------------
(* The applying side: a state machine handle of one of the three variants,   *)
(* the session mirror that decides which committed entries reach Update, and *)
(* the two-phase snapshot of the Concurrent and OnDisk variants.             *)

Variants == {"Regular", "Concurrent", "OnDisk"}
SMClients == 1 .. MaxClients
Payloads == 1 .. MaxPayload

\* a committed entry as the log delivers it
Entries == [cid : SMClients, sid : SeriesIDFirstProposal .. MaxSeries, payload : Payloads]

\* no snapshot context outstanding
NoContext == [held |-> FALSE, view |-> << >>, mark |-> 0, hash |-> 0]

\* digest of the content of the state machine
RECURSIVE GetHash(_)
GetHash(content) ==
    IF content = << >>
    THEN 0
    ELSE (3 * GetHash(SubSeq(content, 1, Len(content) - 1))
            + content[Len(content)]) % Modulus

\* the handle a Create call returns
Create(variant) ==
    [variant |-> variant, status |-> "created", content |-> << >>,
     mirror |-> [c \in SMClients |-> 0], ctx |-> NoContext, saving |-> FALSE,
     saved |-> FALSE, snapshot |-> << >>, updates |-> 0, last |-> "Create"]

\* the handle accepts Update, Lookup, GetHash, Sync and the snapshot calls
Usable(r) ==
    \/ r.status = "open"
    \/ r.variant # "OnDisk" /\ r.status = "created"

Update(r, payload) ==
    [r EXCEPT !.content = Append(@, payload), !.updates = @ + 1]

\* the mirror that calls an entry a replay only below the recorded RespondedTo
ApplyEntry_OffByOne(r, e) ==
    IF e.sid < r.mirror[e.cid]
    THEN [r EXCEPT !.last = "Duplicate"]
    ELSE [Update(r, e.payload) EXCEPT !.mirror[e.cid] = e.sid, !.last = "Update"]

\* one committed entry: a replay is answered from the mirror, anything else
\* is applied and recorded as the last SeriesID completed for its client
ApplyEntry(r, e) ==
    IF e.sid <= r.mirror[e.cid]
    THEN [r EXCEPT !.last = "Duplicate"]
    ELSE [Update(r, e.payload) EXCEPT !.mirror[e.cid] = e.sid, !.last = "Update"]

PrepareSnapshot(r) ==
    [r EXCEPT !.ctx = [held |-> TRUE, view |-> r.content,
                       mark |-> Len(r.content), hash |-> GetHash(r.content)],
              !.last = "PrepareSnapshot"]

\* a save that streams the live content
SnapshotView_Live(r) == r.content

\* what SaveSnapshot streams: the view its context froze
SnapshotView(r) == r.ctx.view

\* a Destroy that does not look at the outstanding contexts
CanDestroy_IgnoresContexts(r) == r.status # "destroyed"

\* Destroy is valid once, with every snapshot context freed
CanDestroy(r) == r.status # "destroyed" /\ ~ r.ctx.held

InitRSM ==
    /\ cs = ZeroSession
    /\ pc = "idle"
    /\ ctor = "none"
    /\ draws = << >>
    /\ op = "none"
    /\ arg = 0
    /\ ret = "none"
    /\ life = Life("none", 0)
    /\ \E variant \in Variants : rsm = Create(variant)

Open ==
    /\ rsm.variant = "OnDisk"
    /\ rsm.status = "created"
    /\ rsm' = [rsm EXCEPT !.status = "open", !.last = "Open"]
    /\ UNCHANGED sessionVars

Deliver ==
    /\ Usable(rsm)
    /\ \E e \in Entries : rsm' = ApplyEntry(rsm, e)
    /\ UNCHANGED sessionVars

Lookup ==
    /\ Usable(rsm)
    /\ rsm' = [rsm EXCEPT !.last = "Lookup"]
    /\ UNCHANGED sessionVars

CallGetHash ==
    /\ Usable(rsm)
    /\ rsm' = [rsm EXCEPT !.last = "GetHash"]
    /\ UNCHANGED sessionVars

Sync ==
    /\ rsm.variant = "OnDisk"
    /\ Usable(rsm)
    /\ rsm' = [rsm EXCEPT !.last = "Sync"]
    /\ UNCHANGED sessionVars

CallPrepareSnapshot ==
    /\ rsm.variant # "Regular"
    /\ Usable(rsm)
    /\ ~ rsm.ctx.held
    /\ rsm' = PrepareSnapshot(rsm)
    /\ UNCHANGED sessionVars

\* SaveSnapshot of the Concurrent and OnDisk variants starts streaming
SaveSnapshotBegin ==
    /\ rsm.variant # "Regular"
    /\ Usable(rsm)
    /\ rsm.ctx.held
    /\ ~ rsm.saving
    /\ rsm' = [rsm EXCEPT !.saving = TRUE, !.last = "SaveSnapshotBegin"]
    /\ UNCHANGED sessionVars

\* and returns with the snapshot written
SaveSnapshotEnd ==
    /\ rsm.saving
    /\ rsm' = [rsm EXCEPT !.saving = FALSE, !.saved = TRUE,
                          !.snapshot = SnapshotView(rsm), !.last = "SaveSnapshot"]
    /\ UNCHANGED sessionVars

\* SaveSnapshot of the Regular variant: one phase, serialized with Update
SaveSnapshotRegular ==
    /\ rsm.variant = "Regular"
    /\ Usable(rsm)
    /\ rsm' = [rsm EXCEPT !.saved = TRUE, !.snapshot = rsm.content,
                          !.last = "SaveSnapshot"]
    /\ UNCHANGED sessionVars

FreePrepareSnapshotResult ==
    /\ rsm.ctx.held
    /\ ~ rsm.saving
    /\ rsm' = [rsm EXCEPT !.ctx = NoContext, !.last = "FreePrepareSnapshotResult"]
    /\ UNCHANGED sessionVars

RecoverFromSnapshot ==
    /\ Usable(rsm)
    /\ rsm.saved
    /\ ~ rsm.ctx.held
    /\ rsm' = [rsm EXCEPT !.content = rsm.snapshot, !.last = "RecoverFromSnapshot"]
    /\ UNCHANGED sessionVars

Destroy ==
    /\ CanDestroy(rsm)
    /\ rsm' = [rsm EXCEPT !.status = "destroyed", !.last = "Destroy"]
    /\ UNCHANGED sessionVars

NextRSM ==
    \/ Open
    \/ Deliver
    \/ Lookup
    \/ CallGetHash
    \/ Sync
    \/ CallPrepareSnapshot
    \/ SaveSnapshotBegin
    \/ SaveSnapshotEnd
    \/ SaveSnapshotRegular
    \/ FreePrepareSnapshotResult
    \/ RecoverFromSnapshot
    \/ Destroy

\* the applying side of one group
SpecRSM == InitRSM /\ [][NextRSM]_vars

----------------------------------------------------------------------------
(* Initial states *)

\* nothing built yet: the next call is one of the two constructors
Init ==
    /\ cs = ZeroSession
    /\ pc = "idle"
    /\ ctor = "none"
    /\ draws = << >>
    /\ op = "none"
    /\ arg = 0
    /\ ret = "none"
    /\ life = Life("none", 0)
    /\ rsm = Create("Regular")

\* a Session built as a struct literal (the fields are exported), any values
InitLiteral ==
    /\ cs \in Literals
    /\ pc = "ready"
    /\ ctor = "literal"
    /\ draws = << >>
    /\ op = "none"
    /\ arg = 0
    /\ ret = "none"
    /\ life = Life("off", 0)
    /\ rsm = Create("Regular")

InitAny == Init \/ InitLiteral

----------------------------------------------------------------------------
(* Constructors: entry, then one step per iteration of the for loop *)

\* leading sentinel draws beyond MaxDraws are not recorded
Record(cid) ==
    IF cid = NotSessionManagedClientID /\ Len(draws) >= MaxDraws
    THEN draws
    ELSE Append(draws, cid)

CallNewSession ==
    /\ pc = "idle"
    /\ \E clusterID \in ClusterIDs :
          /\ arg' = clusterID
          /\ pc' = "NewSession"
          /\ op' = "NewSession"
          /\ ret' = "none"
          /\ draws' = << >>
          /\ UNCHANGED <<cs, ctor, life, rsm>>

\* the loop of NewSession without the test of the drawn value
LoopNewSession_AcceptsAny ==
    /\ pc = "NewSession"
    /\ \E cid \in Uint64 :
          /\ draws' = Record(cid)
          /\ cs' = NewSession(arg, cid)
          /\ pc' = "ready"
          /\ ctor' = "NewSession"
          /\ ret' = "ok"
          /\ life' = Life("created", 0)
          /\ UNCHANGED <<op, arg, rsm>>

LoopNewSession ==
    /\ pc = "NewSession"
    /\ \E cid \in Uint64 :
          /\ draws' = Record(cid)
          /\ IF cid # NotSessionManagedClientID
             THEN /\ cs' = NewSession(arg, cid)
                  /\ pc' = "ready"
                  /\ ctor' = "NewSession"
                  /\ ret' = "ok"
                  /\ life' = Life("created", 0)
             ELSE UNCHANGED <<cs, pc, ctor, ret, life>>
          /\ UNCHANGED <<op, arg, rsm>>

CallNewNoOPSession ==
    /\ pc = "idle"
    /\ \E clusterID \in ClusterIDs :
          /\ arg' = clusterID
          /\ pc' = "NewNoOPSession"
          /\ op' = "NewNoOPSession"
          /\ ret' = "none"
          /\ draws' = << >>
          /\ UNCHANGED <<cs, ctor, life, rsm>>

LoopNewNoOPSession ==
    /\ pc = "NewNoOPSession"
    /\ \E cid \in Uint64 :
          /\ draws' = Record(cid)
          /\ IF cid # NotSessionManagedClientID
             THEN /\ cs' = NewNoOPSession(arg, cid)
                  /\ pc' = "ready"
                  /\ ctor' = "NewNoOPSession"
                  /\ ret' = "ok"
                  /\ life' = Life("off", 0)
             ELSE UNCHANGED <<cs, pc, ctor, ret, life>>
          /\ UNCHANGED <<op, arg, rsm>>

----------------------------------------------------------------------------
(* Method calls on the session *)

\* a method without argument that may write the receiver
Mutate(name, out) ==
    /\ pc = "ready"
    /\ cs' = out.cs
    /\ ret' = out.ret
    /\ op' = name
    /\ life' = LifeStep(life, name, out.ret)
    /\ UNCHANGED <<pc, ctor, draws, arg, rsm>>

\* a method that only reads the receiver
Query(name, clusterID, r) ==
    /\ pc = "ready"
    /\ ret' = r
    /\ op' = name
    /\ arg' = clusterID
    /\ UNCHANGED <<cs, pc, ctor, draws, life, rsm>>

CallPrepareForRegister == Mutate("PrepareForRegister", PrepareForRegister(cs))

CallPrepareForUnregister == Mutate("PrepareForUnregister", PrepareForUnregister(cs))

CallPrepareForPropose == Mutate("PrepareForPropose", PrepareForPropose(cs))

CallProposalCompleted == Mutate("ProposalCompleted", ProposalCompleted(cs))

CallIsNoOPSession == Query("IsNoOPSession", arg, IsNoOPSession(cs))

CallClusterIDMustMatch ==
    \E clusterID \in ClusterIDs :
        Query("ClusterIDMustMatch", clusterID, ClusterIDMustMatch(cs, clusterID))

CallValidForProposal ==
    \E clusterID \in ClusterIDs :
        Query("ValidForProposal", clusterID, ValidForProposal(cs, clusterID))

CallValidForSessionOp ==
    \E clusterID \in ClusterIDs :
        Query("ValidForSessionOp", clusterID, ValidForSessionOp(cs, clusterID))

Next ==
    \/ CallNewSession
    \/ LoopNewSession
    \/ CallNewNoOPSession
    \/ LoopNewNoOPSession
    \/ CallPrepareForRegister
    \/ CallPrepareForUnregister
    \/ CallPrepareForPropose
    \/ CallProposalCompleted
    \/ CallIsNoOPSession
    \/ CallClusterIDMustMatch
    \/ CallValidForProposal
    \/ CallValidForSessionOp

\* sessions built by the constructors
Spec == Init /\ [][Next]_vars

\* sessions built by the constructors or written as struct literals
SpecAny == InitAny /\ [][Next]_vars

\* the constructors under a random source that keeps yielding values other
\* than NotSessionManagedClientID: the returning iteration is taken eventually
SpecFair ==
    /\ Init
    /\ [][Next]_vars
    /\ WF_vars(LoopNewSession /\ pc' = "ready")
    /\ WF_vars(LoopNewNoOPSession /\ pc' = "ready")

TypeOK ==
    /\ cs \in Session
    /\ pc \in {"idle", "NewSession", "NewNoOPSession", "ready"}
    /\ ctor \in {"none", "NewSession", "NewNoOPSession", "literal"}
    /\ draws \in Seq(Uint64) /\ Len(draws) <= MaxDraws + 1
    /\ arg \in Uint64
    /\ ret \in {"ok", "true", "false", "panic", "none"}
    /\ life \in [phase : {"none", "created", "registered", "proposing",
                          "unregistered", "faulted", "off"},
                 n : 0 .. MaxUint64]

----------------------------------------------------------------------------
(* Properties *)

\* C1: in every state reached from a session returned by NewSession,
\* RespondedTo <= SeriesID.
C1_RespondedToAtMostSeriesID ==
    ctor = "NewSession" => cs.RespondedTo <= cs.SeriesID

\* C2: on a session returned by NewSession, a ProposalCompleted that does not
\* fault was called with SeriesID = RespondedTo + 1 and leaves RespondedTo at
\* the old SeriesID and SeriesID at exactly the old SeriesID plus 1; called
\* with SeriesID # RespondedTo + 1 it faults.
C2_CompletionAdvancesByOne ==
    [][(ctor = "NewSession" /\ CallProposalCompleted) =>
          /\ ret' # "panic" =>
                /\ cs.SeriesID = cs.RespondedTo + 1
                /\ cs'.RespondedTo = cs.SeriesID
                /\ cs'.SeriesID = cs.SeriesID + 1
          /\ cs.SeriesID # cs.RespondedTo + 1 => ret' = "panic"]_vars

\* C3 (as stated): from SeriesID = 1, RespondedTo = 0 a first
\* ProposalCompleted gives RespondedTo = 1, SeriesID = 2, and a second
\* ProposalCompleted called right after it faults.
C3_SecondCompletionFaults ==
    [][(ctor = "NewSession" /\ CallProposalCompleted) =>
          /\ (cs.SeriesID = 1 /\ cs.RespondedTo = 0) =>
                (ret' = "ok" /\ cs'.RespondedTo = 1 /\ cs'.SeriesID = 2)
          /\ (op = "ProposalCompleted" /\ ret = "ok"
                /\ cs.SeriesID = 2 /\ cs.RespondedTo = 1) =>
                ret' = "panic"]_vars

\* C3 (amended): from SeriesID = 1, RespondedTo = 0 a first ProposalCompleted
\* gives RespondedTo = 1, SeriesID = 2, and a second ProposalCompleted called
\* right after it succeeds and gives RespondedTo = 2, SeriesID = 3; it is
\* after an intervening PrepareForPropose that ProposalCompleted faults.
C3_SecondCompletionSucceeds ==
    [][(ctor = "NewSession" /\ CallProposalCompleted) =>
          /\ (cs.SeriesID = 1 /\ cs.RespondedTo = 0) =>
                (ret' = "ok" /\ cs'.RespondedTo = 1 /\ cs'.SeriesID = 2)
          /\ (op = "ProposalCompleted" /\ ret = "ok"
                /\ cs.SeriesID = 2 /\ cs.RespondedTo = 1) =>
                (ret' = "ok" /\ cs'.RespondedTo = 2 /\ cs'.SeriesID = 3)
          /\ (op = "PrepareForPropose" /\ ret = "ok" /\ cs.RespondedTo = 1) =>
                (ret' = "panic" /\ cs' = cs)]_vars

\* the second of two ProposalCompleted calls in a row has succeeded
C3_Witness ==
    /\ ctor = "NewSession"
    /\ op = "ProposalCompleted" /\ ret = "ok"
    /\ cs.SeriesID = 3 /\ cs.RespondedTo = 2

\* C4 (as stated): ValidForProposal returns false for every session whose
\* SeriesID is the NoOP, the Register or the Unregister sentinel.
C4_SentinelsNeverValid ==
    (op = "ValidForProposal"
       /\ cs.SeriesID \in {NoOPSeriesID, SeriesIDForRegister, SeriesIDForUnregister})
    => ret = "false"

\* C4 (amended): ValidForProposal(g) returns false for every session whose
\* SeriesID is the Register or the Unregister sentinel; for a session whose
\* SeriesID is the NoOP sentinel it returns false only when ClientID is the
\* unmanaged sentinel or ClusterID differs from g, and for a session returned
\* by NewNoOPSession(g) it returns true.
C4_RegisterUnregisterNeverValid ==
    op = "ValidForProposal" =>
        /\ cs.SeriesID \in {SeriesIDForRegister, SeriesIDForUnregister}
              => ret = "false"
        /\ (cs.SeriesID = NoOPSeriesID /\ ret = "false")
              => (cs.ClientID = NotSessionManagedClientID \/ cs.ClusterID # arg)
        /\ (ctor = "NewNoOPSession" /\ cs.ClusterID = arg)
              => ret = "true"

\* ValidForProposal has accepted a session built by NewNoOPSession
C4_Witness ==
    /\ ctor = "NewNoOPSession"
    /\ op = "ValidForProposal" /\ ret = "true"
    /\ cs.SeriesID = NoOPSeriesID /\ cs.ClientID # NotSessionManagedClientID

\* C5: for a session with SeriesID in SeriesIDFirstProposal ..
\* SeriesIDForRegister - 1 and RespondedTo <= SeriesID, ValidForProposal(g)
\* returns true exactly when ClusterID = g and ClientID is not the unmanaged
\* sentinel, and false otherwise.
C5_ValidInNormalRange ==
    (op = "ValidForProposal"
       /\ cs.SeriesID \in SeriesIDFirstProposal .. (SeriesIDForRegister - 1)
       /\ cs.RespondedTo <= cs.SeriesID)
    => /\ ret \in {"true", "false"}
       /\ ret = "true" <=>
             (cs.ClusterID = arg /\ cs.ClientID # NotSessionManagedClientID)

\* ValidForProposal has accepted a session of the normal range for its group
C5_Witness ==
    /\ op = "ValidForProposal" /\ ret = "true"
    /\ cs.SeriesID \in SeriesIDFirstProposal .. (SeriesIDForRegister - 1)
    /\ cs.RespondedTo <= cs.SeriesID
    /\ cs.ClusterID = arg

\* C6 (as stated): ValidForProposal faults on every session whose RespondedTo
\* exceeds its SeriesID, for every group id passed.
C6_AlwaysFaultsWhenRespondedToAhead ==
    (op = "ValidForProposal" /\ cs.RespondedTo > cs.SeriesID) => ret = "panic"

\* C6 (amended): on a session whose RespondedTo exceeds its SeriesID,
\* ValidForProposal(g) faults exactly when ClusterID = g, ClientID is not the
\* unmanaged sentinel and SeriesID is not the Register or the Unregister
\* sentinel; in every other case it returns false.
C6_FaultsAfterEarlyReturns ==
    (op = "ValidForProposal" /\ cs.RespondedTo > cs.SeriesID)
    => /\ ret \in {"panic", "false"}
       /\ ret = "panic" <=>
             /\ cs.ClusterID = arg
             /\ cs.ClientID # NotSessionManagedClientID
             /\ cs.SeriesID \notin {SeriesIDForRegister, SeriesIDForUnregister}

\* ValidForProposal has faulted on a session whose RespondedTo is ahead
C6_Witness ==
    /\ op = "ValidForProposal" /\ ret = "panic"
    /\ cs.RespondedTo > cs.SeriesID

\* C7: ValidForSessionOp(g) never faults and returns true exactly when
\* SeriesID is the Register or the Unregister sentinel, ClusterID = g and
\* ClientID is not the unmanaged sentinel.
C7_ValidForSessionOpExact ==
    op = "ValidForSessionOp" =>
        /\ ret \in {"true", "false"}
        /\ ret = "true" <=>
              /\ cs.SeriesID \in {SeriesIDForRegister, SeriesIDForUnregister}
              /\ cs.ClusterID = arg
              /\ cs.ClientID # NotSessionManagedClientID

\* ValidForSessionOp has accepted a session
C7_Witness ==
    /\ op = "ValidForSessionOp" /\ ret = "true"
    /\ cs.SeriesID \in {SeriesIDForRegister, SeriesIDForUnregister}

\* C8: a session returned by NewSession stays regular: ClientID is never the
\* unmanaged sentinel and SeriesID is never the NoOP sentinel.
C8_RegularStaysRegular ==
    ctor = "NewSession" =>
        /\ cs.ClientID # NotSessionManagedClientID
        /\ cs.SeriesID # NoOPSeriesID

\* C9: the three Prepare operations and ProposalCompleted fault on a session
\* that is not regular; on a regular session the Prepare operations do not
\* fault and set SeriesID to the Register sentinel, the Unregister sentinel
\* and SeriesIDFirstProposal, whatever SeriesID was.
C9_PrepareAssertsRegular ==
    [][LET notRegular == \/ cs.ClientID = NotSessionManagedClientID
                         \/ cs.SeriesID = NoOPSeriesID
           sets(v) == IF notRegular
                      THEN ret' = "panic"
                      ELSE ret' = "ok" /\ cs'.SeriesID = v
       IN  /\ CallPrepareForRegister => sets(SeriesIDForRegister)
           /\ CallPrepareForUnregister => sets(SeriesIDForUnregister)
           /\ CallPrepareForPropose => sets(SeriesIDFirstProposal)
           /\ (CallProposalCompleted /\ notRegular) => ret' = "panic"]_vars

\* PrepareForUnregister has acted on a struct literal that is regular
C9_Witness ==
    /\ ctor = "literal"
    /\ op = "PrepareForUnregister" /\ ret = "ok"
    /\ cs.SeriesID = SeriesIDForUnregister

\* C10: when NewSession(g) returns, ClusterID = g, ClientID is the first value
\* drawn that is not the unmanaged sentinel, SeriesID = SeriesIDFirstProposal
\* = NoOPSeriesID + 1 and RespondedTo = 0, and ProposalCompleted succeeds on
\* the session.
C10_NewSessionResult ==
    (op = "NewSession" /\ pc = "ready") =>
        /\ cs.ClusterID = arg
        /\ Len(draws) >= 1
        /\ cs.ClientID = draws[Len(draws)]
        /\ cs.ClientID # NotSessionManagedClientID
        /\ \A i \in 1 .. (Len(draws) - 1) : draws[i] = NotSessionManagedClientID
        /\ cs.SeriesID = SeriesIDFirstProposal
        /\ cs.SeriesID = NoOPSeriesID + 1
        /\ cs.RespondedTo = 0
        /\ ProposalCompleted(cs).ret = "ok"

\* NewSession has returned after rejecting a sentinel draw
C10_Witness ==
    /\ op = "NewSession" /\ pc = "ready"
    /\ Len(draws) > 1

\* C15: under a random source that eventually yields a value other than the
\* unmanaged sentinel, NewSession and NewNoOPSession return, and they return
\* at the first such draw: every draw before it was the sentinel and an
\* iteration returns exactly when its draw is not the sentinel, so a source
\* that yields the sentinel forever never lets them return.
C15_ConstructorsTerminate ==
    /\ (pc = "NewSession") ~> (pc = "ready" /\ ctor = "NewSession")
    /\ (pc = "NewNoOPSession") ~> (pc = "ready" /\ ctor = "NewNoOPSession")
    /\ [](pc \in {"NewSession", "NewNoOPSession"} =>
            \A i \in 1 .. Len(draws) : draws[i] = NotSessionManagedClientID)
    /\ [][(LoopNewSession \/ LoopNewNoOPSession) =>
            (pc' = "ready" <=>
                draws'[Len(draws')] # NotSessionManagedClientID)]_vars

\* NewNoOPSession has returned after rejecting a sentinel draw
C15_Witness ==
    /\ op = "NewNoOPSession" /\ pc = "ready"
    /\ Len(draws) > 1
    /\ draws[1] = NotSessionManagedClientID

\* C16: a call of PrepareForRegister, PrepareForUnregister, PrepareForPropose,
\* ProposalCompleted or ValidForProposal that faults leaves ClusterID,
\* ClientID, SeriesID and RespondedTo as they were.
C16_FaultChangesNothing ==
    [][((\/ CallPrepareForRegister
         \/ CallPrepareForUnregister
         \/ CallPrepareForPropose
         \/ CallProposalCompleted
         \/ CallValidForProposal) /\ ret' = "panic") =>
          /\ cs'.ClusterID = cs.ClusterID
          /\ cs'.ClientID = cs.ClientID
          /\ cs'.SeriesID = cs.SeriesID
          /\ cs'.RespondedTo = cs.RespondedTo]_vars

\* ProposalCompleted has faulted on a regular session out of sequence
C16_Witness ==
    /\ op = "ProposalCompleted" /\ ret = "panic"
    /\ cs.ClientID # NotSessionManagedClientID
    /\ cs.SeriesID # NoOPSeriesID

\* C17: a session returned by NewNoOPSession has SeriesID = NoOP and
\* IsNoOPSession true, and keeps them through every sequence of
\* PrepareForRegister, PrepareForUnregister, PrepareForPropose and
\* ProposalCompleted calls, all of which fault; ValidForSessionOp is false on
\* it for every group.
C17_NoOPSessionAbsorbing ==
    ctor = "NewNoOPSession" =>
        /\ cs.SeriesID = NoOPSeriesID
        /\ IsNoOPSession(cs) = "true"
        /\ \A g \in Uint64 : ValidForSessionOp(cs, g) = "false"
        /\ op \in {"PrepareForRegister", "PrepareForUnregister",
                   "PrepareForPropose", "ProposalCompleted"} => ret = "panic"
        /\ op = "IsNoOPSession" => ret = "true"
        /\ op = "ValidForSessionOp" => ret = "false"

\* PrepareForPropose has been called on a session built by NewNoOPSession
C17_Witness ==
    /\ ctor = "NewNoOPSession"
    /\ op = "PrepareForPropose" /\ ret = "panic"

\* C18: for every session and every group id, ValidForProposal and
\* ValidForSessionOp do not both return true.
C18_NeverBothValid ==
    pc = "ready" =>
        \A g \in Uint64 :
            ~ (ValidForProposal(cs, g) = "true" /\ ValidForSessionOp(cs, g) = "true")

\* ValidForSessionOp has accepted a session that ValidForProposal rejects
C18_Witness ==
    /\ op = "ValidForSessionOp" /\ ret = "true"
    /\ ValidForProposal(cs, arg) = "false"

\* C19: on a session returned by NewSession, ProposalCompleted faults whenever
\* SeriesID is the Register or the Unregister sentinel, and a ProposalCompleted
\* that succeeds never leaves SeriesID at one of the two.
C19_NoCompletionOnSentinels ==
    [][(ctor = "NewSession" /\ CallProposalCompleted) =>
          /\ cs.SeriesID \in {SeriesIDForRegister, SeriesIDForUnregister}
                => ret' = "panic"
          /\ ret' = "ok"
                => cs'.SeriesID \notin {SeriesIDForRegister, SeriesIDForUnregister}]_vars

\* C20: after creation no call changes ClusterID or ClientID; the three
\* Prepare operations leave RespondedTo alone; IsNoOPSession, ValidForProposal
\* and ValidForSessionOp change no field; RespondedTo changes only in a
\* ProposalCompleted that succeeds, and then it grows.
C20_Frame ==
    [][pc = "ready" =>
          /\ cs'.ClusterID = cs.ClusterID
          /\ cs'.ClientID = cs.ClientID
          /\ (CallPrepareForRegister \/ CallPrepareForUnregister \/ CallPrepareForPropose)
                => cs'.RespondedTo = cs.RespondedTo
          /\ (CallIsNoOPSession \/ CallValidForProposal \/ CallValidForSessionOp)
                => cs' = cs
          /\ cs'.RespondedTo # cs.RespondedTo
                => /\ CallProposalCompleted
                   /\ ret' = "ok"
                   /\ cs'.RespondedTo > cs.RespondedTo]_vars

\* PrepareForPropose has acted on a session with completed proposals
C20_Witness ==
    /\ op = "PrepareForPropose" /\ ret = "ok"
    /\ cs.RespondedTo > 0

\* C11: after NewSession and PrepareForRegister the session is
\* ValidForSessionOp and not ValidForProposal for its group; after a following
\* PrepareForPropose it is ValidForProposal and not ValidForSessionOp, and any
\* number n of ProposalCompleted calls then succeed and leave SeriesID = n + 1
\* and RespondedTo = n; after a final PrepareForUnregister it is again
\* ValidForSessionOp and not ValidForProposal.
C11_LifecycleOrdering ==
    LET forSessionOp == /\ ValidForSessionOp(cs, cs.ClusterID) = "true"
                        /\ ValidForProposal(cs, cs.ClusterID) = "false"
        forProposal == /\ ValidForProposal(cs, cs.ClusterID) = "true"
                       /\ ValidForSessionOp(cs, cs.ClusterID) = "false"
    IN  /\ life.phase # "faulted"
        /\ life.phase = "registered" => forSessionOp
        /\ life.phase = "proposing" =>
              /\ cs.SeriesID = life.n + 1
              /\ cs.RespondedTo = life.n
              /\ life.n = 0 => forProposal
        /\ life.phase = "unregistered" => forSessionOp

\* C12: when a committed entry arrives with a SeriesID <= the RespondedTo the
\* mirror records for its ClientID, Update is not called for it, and the
\* content of the state machine and its GetHash digest stay as they were.
C12_ReplayAppliesNothing ==
    [][\A e \in Entries :
          (/\ Usable(rsm)
           /\ e.sid <= rsm.mirror[e.cid]
           /\ rsm' = ApplyEntry(rsm, e)) =>
              /\ rsm'.updates = rsm.updates
              /\ rsm'.content = rsm.content
              /\ GetHash(rsm'.content) = GetHash(rsm.content)]_vars

\* an entry already applied has been delivered again
C12_Witness ==
    /\ rsm.last = "Duplicate"
    /\ rsm.updates > 0
    /\ rsm.content # << >>

\* C13: for the Concurrent and OnDisk variants the snapshot SaveSnapshot
\* writes holds exactly the Updates completed when PrepareSnapshot returned,
\* with the digest of that moment, and while the context is outstanding an
\* entry not yet applied can be applied without waiting for SaveSnapshot.
C13_SnapshotFreeze ==
    /\ (rsm.variant # "Regular" /\ rsm.last = "SaveSnapshot") =>
          /\ rsm.snapshot = SubSeq(rsm.content, 1, rsm.ctx.mark)
          /\ GetHash(rsm.snapshot) = rsm.ctx.hash
    /\ (rsm.ctx.held /\ \E c \in SMClients : rsm.mirror[c] < MaxSeries) =>
          ENABLED (Deliver /\ rsm'.updates = rsm.updates + 1)

\* SaveSnapshot has returned after an Update that came after PrepareSnapshot
C13_Witness ==
    /\ rsm.variant # "Regular"
    /\ rsm.last = "SaveSnapshot"
    /\ rsm.ctx.mark > 0
    /\ Len(rsm.content) > rsm.ctx.mark

\* C14: an OnDisk state machine gets no Update before Open has completed, no
\* call is made on a handle after Destroy, and Destroy is not called while a
\* snapshot context is outstanding.
C14_HandleLifecycle ==
    [][/\ rsm.status = "destroyed" => rsm' = rsm
       /\ (rsm.variant = "OnDisk" /\ rsm'.updates > rsm.updates)
             => rsm.status = "open"
       /\ (rsm'.status = "destroyed" /\ rsm.status # "destroyed")
             => ~ rsm.ctx.held]_vars

\* an OnDisk state machine was opened, updated, snapshotted and destroyed
C14_Witness ==
    /\ rsm.variant = "OnDisk"
    /\ rsm.status = "destroyed"
    /\ rsm.updates > 0
    /\ rsm.saved

====
